---- MODULE Spec2Model ----
(***************************************************************************)
(* Model of src/manager.py, the EMS management console: the GitHub         *)
(* contents-API fetcher and uploader, the three loaders (history SQLite,   *)
(* realtime SQLite, archive CSV), and the two pages (realtime_page and     *)
(* history_page with its maintenance tab).                                 *)
(*                                                                         *)
(* Conventions.  An optional value is a sequence of length at most one:    *)
(* <<>> is Python's None (or pandas' NaN/NaT), <<v>> is the value v.  A    *)
(* DataFrame is [cols, rows]: cols is the ordered column list, rows the    *)
(* ordered rows; a row always carries all the fields of the record shape,  *)
(* and a field whose column is not in cols is <<>>.  Every call records    *)
(* the HTTP requests it issued in net, whether it raised to its caller in  *)
(* raised, and what it returned or displayed in ret.                       *)
(***************************************************************************)
EXTENDS Integers, Sequences, FiniteSets, TLC

VARIABLES secrets, hist, served, cleared, call, inp, net, raised, ret, lastGood

vars == <<secrets, hist, served, cleared, call, inp, net, raised, ret, lastGood>>

(* ------------------------------ bounds --------------------------------- *)

\* rows per file handed to a loader called on its own
MaxRows == 2
\* rows per file seen by a page refresh
MaxPageRows == 1

(* ------------------------------ values --------------------------------- *)

None == <<>>

Some(v) == <<v>>

\* the two file paths the pages read besides the archives
HistoryPath == [dir |-> "Data/local", name |-> "local_historical.db"]

RealtimePath == [dir |-> "Data/local", name |-> "local_realtime.db"]

ArchivePath(name) == [dir |-> "historical_data/archives", name |-> name]

\* ts strings as the recorder stores them, and a string that is no timestamp
TsValues == {"2024-01-01 10:00:00", "2024-01-02 09:00:00", "bad"}

\* pd.to_datetime(ts, errors="coerce"): minutes since 2024-01-01 00:00, NaT as <<>>
to_datetime(ts) ==
    CASE ts = "2024-01-01 10:00:00" -> Some(600)
      [] ts = "2024-01-02 09:00:00" -> Some(1980)
      [] OTHER -> None

\* position of a ts string in SQLite's BINARY (bytewise) text order
TsRank(ts) ==
    CASE ts = "2024-01-01 10:00:00" -> 1
      [] ts = "2024-01-02 09:00:00" -> 2
      [] OTHER -> 3

\* ts[:10], the date prefix history_page groups by
TsDate(ts) ==
    CASE ts = "2024-01-01 10:00:00" -> "2024-01-01"
      [] ts = "2024-01-02 09:00:00" -> "2024-01-02"
      [] OTHER -> ts

\* a parsed JSON object: obj.get(k) for the five keys the loaders read
JsonObj(line, shift, wo, temp, curr) ==
    [line |-> line, shift |-> shift, work_order |-> wo,
     temperature |-> temp, current |-> curr]

EmptyObj == JsonObj(None, None, None, None, None)

\* the text of a data cell: valid JSON with its object, or text json.loads rejects
DataValues ==
    { [valid |-> TRUE,
       obj |-> JsonObj(Some("L1"), Some("A"), Some("W1"), Some(36), Some(2))],
      [valid |-> TRUE,
       obj |-> JsonObj(Some("L2"), None, None, None, None)],
      [valid |-> FALSE, obj |-> EmptyObj] }

\* a stored row of the records table, without its id (the id is the position)
StoredRows == [ts : TsValues, data : DataValues]

SeqsUpTo(S, n) == UNION {[1..k -> S] : k \in 0..n}

NoFile == [kind |-> "nofile"]

\* file contents: zero bytes, bytes that are no SQLite database with a records
\* table, a SQLite database whose records table holds rows (ids 1..n in
\* insertion order), bytes pd.read_csv rejects, and CSV text with a header
SqliteFiles(n) == {[kind |-> "sqlite", rows |-> r] : r \in SeqsUpTo(StoredRows, n)}

CsvFiles(n) ==
    {[kind |-> "csv", hasTs |-> t, hasData |-> d, rows |-> r] :
        t \in BOOLEAN, d \in BOOLEAN, r \in SeqsUpTo(StoredRows, n)}

EmptyBytes == [kind |-> "empty"]

Garbage == [kind |-> "garbage"]

EmptyDb == [kind |-> "sqlite", rows |-> <<>>]

DbFiles(n) == {EmptyBytes, Garbage} \cup SqliteFiles(n)

TextFiles(n) == {EmptyBytes, Garbage} \cup CsvFiles(n)

(* --------------------------- configuration ----------------------------- *)

\* st.secrets: GIT_REPO and the comma-split tokens of ALT_REPOS (its default
\* is "EMS,recording"); a token that strips to nothing is ""
DefaultAlts == <<"EMS", "recording">>

AllSecrets ==
    { [GIT_REPO |-> "EMS", ALT_REPOS |-> <<"">>],
      [GIT_REPO |-> "EMS", ALT_REPOS |-> DefaultAlts] }

RECURSIVE Dedup(_, _)
Dedup(names, out) ==
    IF names = <<>> THEN out
    ELSE LET n == Head(names)
         IN IF n = "" \/ (\E i \in 1..Len(out) : out[i] = n)
            THEN Dedup(Tail(names), out)
            ELSE Dedup(Tail(names), Append(out, n))

\* the names without the `seen` set: a name given twice is asked twice
gh_repos_keeps_repeats(sec) ==
    SelectSeq(<<sec.GIT_REPO>> \o sec.ALT_REPOS, LAMBDA n : n # "")

gh_repos(sec) == Dedup(<<sec.GIT_REPO>> \o sec.ALT_REPOS, <<>>)

\* gh_owner_repo_branch()[1]: the repository gh_upload_file writes to
PrimaryRepo(sec) == sec.GIT_REPO

(* ------------------------------ fetcher -------------------------------- *)

\* what one GET of the contents API can come to:
\*   neterr     requests.get raises (connection error, timeout)
\*   s404 s403  an answer whose status is not 200 (not found, not authorized)
\*   notjson    200 with a body r.json() rejects
\*   jsonlist   200 with a JSON list (a directory): .get is no attribute
\*   nocontent  200, a JSON object whose content is missing or ""
\*   badb64     200, content that base64.b64decode rejects
\*   ok         200, content that decodes to the file's bytes
GetKinds == {"neterr", "s404", "s403", "notjson", "jsonlist",
             "nocontent", "badb64", "ok"}

GetRaises(k) == k \in {"neterr", "notjson", "jsonlist"}

GetContinues(k) == k \in {"s404", "s403", "nocontent", "badb64"}

\* the answers one call can meet when it may ask n repositories: an answer for
\* each repository asked, none for a repository after the one the call ends at
GetTraces(n) ==
    {s \in SeqsUpTo(GetKinds, n) :
        /\ n > 0 => Len(s) > 0
        /\ \A i \in 1..(Len(s) - 1) : GetContinues(s[i])
        /\ Len(s) < n => ~GetContinues(s[Len(s)])}

GetReq(repo, path, kind) ==
    [method |-> "GET", repo |-> repo, path |-> path, kind |-> kind, sha |-> None]

Result(r, v, n) == [raised |-> r, value |-> v, net |-> n]

RECURSIVE DownloadLoop(_, _, _, _, _, _)
DownloadLoop(repos, i, path, kinds, files, log) ==
    IF i > Len(repos) THEN Result(FALSE, None, log)
    ELSE LET k == kinds[i]
             log2 == Append(log, GetReq(repos[i], path, k))
         IN IF GetRaises(k) THEN Result(TRUE, None, log2)
            ELSE IF GetContinues(k)
                 THEN DownloadLoop(repos, i + 1, path, kinds, files, log2)
                 ELSE Result(FALSE, Some(files[i]), log2)

\* gh_download_file(path); kinds[i] and files[i] are what the i-th repository
\* of gh_repos() answers
gh_download_file(sec, path, kinds, files) ==
    DownloadLoop(gh_repos(sec), 1, path, kinds, files, <<>>)

\* Python's truth value of the downloaded bytes: `if not db`
Falsy(v) == v = None \/ v[1] = EmptyBytes

(* ------------------------------ uploader ------------------------------- *)

\* the git blob sha of a file is a function of its content alone: the content
\* stands for its own sha
Sha(file) == file

\* the GET that looks the sha up: as GetKinds, with nosha a 200 whose JSON
\* object carries no sha
ShaGetKinds == {"neterr", "s404", "s403", "notjson", "jsonlist", "nosha", "ok"}

\* the PUT: requests.put raises, or the API answers with a status
PutKinds == {"neterr", "s200", "s201", "s401", "s409", "s422"}

PutReq(repo, path, kind, sha) ==
    [method |-> "PUT", repo |-> repo, path |-> path, kind |-> kind, sha |-> sha]

\* gh_upload_file(path, content_bytes): stored is the file now at the path,
\* getKind and putKind what the two requests come to
gh_upload_file(sec, path, stored, getKind, putKind) ==
    LET repo == PrimaryRepo(sec)
        get == GetReq(repo, path, getKind)
    IN IF getKind \in {"neterr", "notjson", "jsonlist"}
       THEN Result(TRUE, FALSE, <<get>>)
       ELSE LET sha == IF getKind = "ok" THEN Some(Sha(stored)) ELSE None
                put == PutReq(repo, path, putKind, sha)
            IN IF putKind = "neterr"
               THEN Result(TRUE, FALSE, <<get, put>>)
               ELSE Result(FALSE, putKind \in {"s200", "s201"}, <<get, put>>)

\* the contents API as the requests see it: a GET delivers a file only where
\* one is stored; a PUT answers 200 only to the stored file's sha, and 201
\* only where no file is stored and no sha is sent
GetFits(stored, kind) == kind = "ok" => stored # NoFile

\* the sha lookup asks the one repository written to: it is answered 404
\* only where no file is stored
ShaGetFits(stored, kind) ==
    /\ kind = "ok" => stored # NoFile
    /\ kind = "s404" => stored = NoFile

PutFits(stored, net_) ==
    \A i \in 1..Len(net_) :
        net_[i].method = "PUT" =>
            /\ net_[i].kind = "s200" => stored # NoFile /\ net_[i].sha = Some(Sha(stored))
            /\ net_[i].kind = "s201" => stored = NoFile /\ net_[i].sha = None
            /\ net_[i].kind \in {"s409", "s422"} =>
                   ~(stored # NoFile /\ net_[i].sha = Some(Sha(stored)))
                   /\ ~(stored = NoFile /\ net_[i].sha = None)

\* the history file after a call that sent `content` to it
Stored(stored, content, res) ==
    IF ~res.raised /\ res.value THEN content ELSE stored

\* clear_history_db(): uploads the bytes of a database whose records table is
\* empty
clear_history_db(sec, stored, getKind, putKind) ==
    gh_upload_file(sec, HistoryPath, stored, getKind, putKind)

(* --------------------------- fetcher calls ----------------------------- *)

OneRowDb ==
    [kind |-> "sqlite",
     rows |-> <<[ts |-> "2024-01-01 10:00:00",
                 data |-> [valid |-> TRUE,
                           obj |-> JsonObj(Some("L1"), Some("A"), Some("W1"),
                                           Some(36), Some(2))]]>>]

\* files the fetcher is called on
FetchFiles == {EmptyBytes, Garbage, EmptyDb}

Idle(sec, h, f) ==
    /\ secrets = sec
    /\ hist = h
    /\ served = f
    /\ cleared = FALSE
    /\ call = "none"
    /\ inp = [path |-> HistoryPath]
    /\ net = <<>>
    /\ raised = FALSE
    /\ ret = None
    /\ lastGood = None

InitFetch ==
    \E sec \in AllSecrets, h \in {NoFile, OneRowDb} \cup FetchFiles,
       f \in {EmptyBytes, EmptyDb} :
        Idle(sec, h, f)

\* the files one call is served: the primary repository serves the stored
\* history file at the history path, every other place serves `served`
FilesOf(stored, other, path) ==
    [i \in 1..(1 + Len(DefaultAlts)) |->
        IF i = 1 /\ path = HistoryPath THEN stored ELSE other]

FilesServed(path) == FilesOf(hist, served, path)

CallDownload ==
    \E path \in {HistoryPath, RealtimePath} :
    \E kinds \in GetTraces(Len(gh_repos(secrets))) :
        LET files == FilesServed(path)
            res == gh_download_file(secrets, path, kinds, files)
        IN /\ \A i \in 1..Len(kinds) : GetFits(files[i], kinds[i])
           /\ call' = "gh_download_file"
           /\ inp' = [path |-> path]
           /\ net' = res.net
           /\ raised' = res.raised
           /\ ret' = res.value
           /\ UNCHANGED <<secrets, hist, served, cleared, lastGood>>

CallUpload ==
    \E content \in FetchFiles, getKind \in ShaGetKinds, putKind \in PutKinds :
        LET res == gh_upload_file(secrets, HistoryPath, hist, getKind, putKind)
        IN /\ ShaGetFits(hist, getKind)
           /\ PutFits(hist, res.net)
           /\ call' = "gh_upload_file"
           /\ inp' = [path |-> HistoryPath, stored |-> hist, content |-> content]
           /\ net' = res.net
           /\ raised' = res.raised
           /\ ret' = Some(res.value)
           /\ hist' = Stored(hist, content, res)
           /\ cleared' = IF ~res.raised /\ res.value THEN FALSE ELSE cleared
           /\ UNCHANGED <<secrets, served, lastGood>>

(* ------------------------------ loaders -------------------------------- *)

\* a row of a DataFrame
Row(id, ts, obj, dt) ==
    [id |-> id, ts |-> ts, line |-> obj.line, shift |-> obj.shift,
     work_order |-> obj.work_order, temperature |-> obj.temperature,
     current |-> obj.current, ts_dt |-> dt]

Frame(cols, rows) == [cols |-> cols, rows |-> rows]

\* pd.DataFrame(): no columns, no rows
EmptyFrame == Frame(<<>>, <<>>)

\* df.empty: some axis has length 0
IsEmpty(df) == df.cols = <<>> \/ df.rows = <<>>

\* json.loads(data) under try/except: {} when the text is rejected
LoadsOrEmpty(data) == IF data.valid THEN data.obj ELSE EmptyObj

\* the rows of the records table with their ids
RECURSIVE WithIds(_, _)
WithIds(rows, i) ==
    IF i > Len(rows) THEN <<>>
    ELSE <<[id |-> i, ts |-> rows[i].ts, data |-> rows[i].data]>> \o WithIds(rows, i + 1)

RECURSIVE Filter(_, _)
Filter(rows, date) ==
    IF rows = <<>> THEN <<>>
    ELSE IF TsDate(Head(rows).ts) = date
         THEN <<Head(rows)>> \o Filter(Tail(rows), date)
         ELSE Filter(Tail(rows), date)

\* insert r into a sequence sorted by TsRank, after the rows that tie with it
RECURSIVE InsertByTs(_, _)
InsertByTs(sorted, r) ==
    IF sorted = <<>> THEN <<r>>
    ELSE IF TsRank(r.ts) < TsRank(Head(sorted).ts)
         THEN <<r>> \o sorted
         ELSE <<Head(sorted)>> \o InsertByTs(Tail(sorted), r)

\* ORDER BY ts ASC: text order, rows that tie in rowid order
RECURSIVE OrderByTsAsc(_)
OrderByTsAsc(rows) ==
    IF rows = <<>> THEN <<>>
    ELSE InsertByTs(OrderByTsAsc(SubSeq(rows, 1, Len(rows) - 1)), rows[Len(rows)])

RECURSIVE Reverse(_)
Reverse(rows) ==
    IF rows = <<>> THEN <<>> ELSE Append(Reverse(Tail(rows)), Head(rows))

\* LIMIT 1000 of the realtime query
RealtimeLimit == 1000

\* ORDER BY id DESC LIMIT 1000
OrderByIdDescLimit(rows) ==
    LET r == Reverse(rows)
    IN SubSeq(r, 1, IF Len(r) < RealtimeLimit THEN Len(r) ELSE RealtimeLimit)

SqliteCols == <<"ts", "line", "shift", "work_order", "temperature", "current", "ts_dt">>

RealtimeCols == <<"id">> \o SqliteCols

\* the recs loop of load_sqlite_from_bytes: no id
RECURSIVE SqliteRecs(_)
SqliteRecs(rows) ==
    IF rows = <<>> THEN <<>>
    ELSE LET r == Head(rows)
         IN <<Row(None, Some(r.ts), LoadsOrEmpty(r.data), to_datetime(r.ts))>>
            \o SqliteRecs(Tail(rows))

\* the recs loop of load_realtime_db: with id
RECURSIVE RealtimeRecs(_)
RealtimeRecs(rows) ==
    IF rows = <<>> THEN <<>>
    ELSE LET r == Head(rows)
         IN <<Row(Some(r.id), Some(r.ts), LoadsOrEmpty(r.data), to_datetime(r.ts))>>
            \o RealtimeRecs(Tail(rows))

\* load_sqlite_from_bytes(db_bytes, date_filter): date_filter is <<>> or <<date>>
load_sqlite_from_bytes(bytes, date_filter) ==
    IF bytes.kind # "sqlite" THEN EmptyFrame
    ELSE LET all == WithIds(bytes.rows, 1)
             rows == OrderByTsAsc(IF date_filter = None THEN all
                                  ELSE Filter(all, date_filter[1]))
             recs == SqliteRecs(rows)
         IN IF recs = <<>> THEN EmptyFrame ELSE Frame(SqliteCols, recs)

\* load_realtime_db() after its download dl
load_realtime_db(dl) ==
    IF dl.raised THEN Result(TRUE, EmptyFrame, dl.net)
    ELSE IF Falsy(dl.value) \/ dl.value[1].kind # "sqlite"
         THEN Result(FALSE, EmptyFrame, dl.net)
         ELSE LET recs == RealtimeRecs(OrderByIdDescLimit(WithIds(dl.value[1].rows, 1)))
              IN Result(FALSE,
                        IF recs = <<>> THEN EmptyFrame ELSE Frame(RealtimeCols, recs),
                        dl.net)

\* load_history_db(date_filter) after its download dl
load_history_db(dl, date_filter) ==
    IF dl.raised THEN Result(TRUE, EmptyFrame, dl.net)
    ELSE IF Falsy(dl.value) THEN Result(FALSE, EmptyFrame, dl.net)
         ELSE Result(FALSE, load_sqlite_from_bytes(dl.value[1], date_filter), dl.net)

\* the header of a CSV file: id, then ts and data where the file has them
CsvHeader(f) ==
    <<"id">> \o (IF f.hasTs THEN <<"ts">> ELSE <<>>)
             \o (IF f.hasData THEN <<"data">> ELSE <<>>)

\* the columns of pd.json_normalize(parsed) among the five, in the loop's order
ParsedCols(rows) ==
    LET has(k) == \E i \in 1..Len(rows) : rows[i].data.obj[k] # None
    IN (IF has("line") THEN <<"line">> ELSE <<>>)
       \o (IF has("shift") THEN <<"shift">> ELSE <<>>)
       \o (IF has("work_order") THEN <<"work_order">> ELSE <<>>)
       \o (IF has("temperature") THEN <<"temperature">> ELSE <<>>)
       \o (IF has("current") THEN <<"current">> ELSE <<>>)

\* the rows of the archive DataFrame, in file order
RECURSIVE CsvRecs(_, _)
CsvRecs(rows, hasData) ==
    IF rows = <<>> THEN <<>>
    ELSE LET r == Head(rows)
         IN <<Row(Some(r.id), Some(r.ts),
                  IF hasData THEN r.data.obj ELSE EmptyObj, to_datetime(r.ts))>>
            \o CsvRecs(Tail(rows), hasData)

\* load_archive_csv(name) after its download dl: pd.read_csv raises on bytes
\* that are no CSV text, json.loads raises on a data cell that is no JSON, and
\* df["ts"] raises where the header has no ts
load_archive_csv(dl) ==
    IF dl.raised THEN Result(TRUE, EmptyFrame, dl.net)
    ELSE IF Falsy(dl.value) THEN Result(FALSE, EmptyFrame, dl.net)
    ELSE LET f == dl.value[1]
         IN IF f.kind # "csv" THEN Result(TRUE, EmptyFrame, dl.net)
            ELSE IF f.hasData /\ \E i \in 1..Len(f.rows) : ~f.rows[i].data.valid
                 THEN Result(TRUE, EmptyFrame, dl.net)
            ELSE IF ~f.hasTs THEN Result(TRUE, EmptyFrame, dl.net)
            ELSE Result(FALSE,
                        Frame(CsvHeader(f)
                                \o (IF f.hasData THEN ParsedCols(f.rows) ELSE <<>>)
                                \o <<"ts_dt">>,
                              CsvRecs(WithIds(f.rows, 1), f.hasData)),
                        dl.net)

(* ---------------------------- loader calls ----------------------------- *)

Dates == {"2024-01-01", "2024-01-02"}

DateFilters == {None} \cup {Some(d) : d \in Dates}

\* one loader call per run, on the files drawn at the start: database files
\* for the SQLite loaders, text files for the CSV loader
InitLoad ==
    \E sec \in AllSecrets :
        \/ \E h \in {NoFile} \cup DbFiles(MaxRows) : Idle(sec, h, EmptyBytes)
        \/ \E f \in DbFiles(MaxRows) \cup TextFiles(MaxRows) : Idle(sec, NoFile, f)

Returned(name, in, res) ==
    /\ call' = name
    /\ inp' = in
    /\ net' = res.net
    /\ raised' = res.raised
    /\ ret' = res.value

CallLoadSqlite ==
    \E date_filter \in DateFilters :
        /\ call = "none"
        /\ served.kind # "csv"
        /\ Returned("load_sqlite_from_bytes",
                    [bytes |-> Some(served), fetched |-> TRUE, date_filter |-> date_filter],
                    Result(FALSE, load_sqlite_from_bytes(served, date_filter), <<>>))
        /\ UNCHANGED <<secrets, hist, served, cleared, lastGood>>

\* load_history_db(date_filter) on the stored history file
LoadHistory ==
    \E kinds \in GetTraces(Len(gh_repos(secrets))), date_filter \in DateFilters :
        LET files == FilesServed(HistoryPath)
            dl == gh_download_file(secrets, HistoryPath, kinds, files)
        IN /\ \A i \in 1..Len(kinds) : GetFits(files[i], kinds[i])
           /\ Returned("load_history_db",
                       [bytes |-> dl.value, fetched |-> ~dl.raised,
                        date_filter |-> date_filter],
                       load_history_db(dl, date_filter))
           /\ UNCHANGED <<secrets, hist, served, cleared, lastGood>>

CallLoadHistory == call = "none" /\ LoadHistory

CallLoadRealtime ==
    \E kinds \in GetTraces(Len(gh_repos(secrets))) :
        LET dl == gh_download_file(secrets, RealtimePath, kinds, FilesServed(RealtimePath))
        IN /\ call = "none"
           /\ served.kind # "csv"
           /\ Returned("load_realtime_db",
                       [bytes |-> dl.value, fetched |-> ~dl.raised, date_filter |-> None],
                       load_realtime_db(dl))
           /\ UNCHANGED <<secrets, hist, served, cleared, lastGood>>

CallLoadArchive ==
    \E kinds \in GetTraces(Len(gh_repos(secrets))), name \in {"2024-01-03.csv"} :
        LET dl == gh_download_file(secrets, ArchivePath(name), kinds,
                                   FilesServed(ArchivePath(name)))
        IN /\ call = "none"
           /\ served.kind # "sqlite"
           /\ Returned("load_archive_csv",
                       [bytes |-> dl.value, fetched |-> ~dl.raised, date_filter |-> None],
                       load_archive_csv(dl))
           /\ UNCHANGED <<secrets, hist, served, cleared, lastGood>>

NextLoad ==
    \/ CallLoadSqlite
    \/ CallLoadHistory
    \/ CallLoadRealtime
    \/ CallLoadArchive

SpecLoad == InitLoad /\ [][NextLoad]_vars

(* ----------------------- the store and its calls ----------------------- *)

\* clear_history_db() on the stored history file
ClearHistory ==
    \E getKind \in ShaGetKinds, putKind \in PutKinds :
        LET res == clear_history_db(secrets, hist, getKind, putKind)
        IN /\ ShaGetFits(hist, getKind)
           /\ PutFits(hist, res.net)
           /\ Returned("clear_history_db", [stored |-> hist],
                       Result(res.raised, Some(res.value), res.net))
           /\ hist' = Stored(hist, EmptyDb, res)
           /\ cleared' = IF ~res.raised /\ res.value THEN TRUE ELSE cleared
           /\ UNCHANGED <<secrets, served, lastGood>>

NextFetch == CallDownload \/ CallUpload \/ ClearHistory \/ LoadHistory

SpecFetch == InitFetch /\ [][NextFetch]_vars

(* ---------------------------- page helpers ----------------------------- *)

\* position of a line name in Python's sorted() order of str
LineRank(l) == IF l = "L1" THEN 1 ELSE 2

LineNames == {"L1", "L2"}

\* _format_duration(sec): hours, minutes and seconds of a whole number of
\* seconds, negative values counted as 0
_format_duration(sec) ==
    LET t == IF sec < 0 THEN 0 ELSE sec
    IN [h |-> t \div 3600, m |-> (t % 3600) \div 60, s |-> t % 60]

\* insert r into a sequence sorted by ts_dt, NaT last, after the rows that tie
RECURSIVE InsertByDt(_, _)
InsertByDt(sorted, r) ==
    IF sorted = <<>> THEN <<r>>
    ELSE LET h == Head(sorted)
             before == r.ts_dt # None /\ (h.ts_dt = None \/ r.ts_dt[1] < h.ts_dt[1])
         IN IF before THEN <<r>> \o sorted
            ELSE <<h>> \o InsertByDt(Tail(sorted), r)

\* df.sort_values("ts_dt"): ascending, NaT last, rows that tie in their order
RECURSIVE SortByDt(_)
SortByDt(rows) ==
    IF rows = <<>> THEN <<>>
    ELSE InsertByDt(SortByDt(SubSeq(rows, 1, Len(rows) - 1)), rows[Len(rows)])

\* groupby("line").tail(1): of the rows whose line is not null, the last row of
\* each line, in the rows' order
RECURSIVE LastPerLine(_)
LastPerLine(rows) ==
    IF rows = <<>> THEN <<>>
    ELSE LET r == Head(rows)
             rest == Tail(rows)
         IN IF r.line = None \/ (\E i \in 1..Len(rest) : rest[i].line = r.line)
            THEN LastPerLine(rest)
            ELSE <<r>> \o LastPerLine(rest)

\* sorted(df["line"].dropna().unique().tolist())
SortedLines(rows) ==
    LET present == {l \in LineNames : \E i \in 1..Len(rows) : rows[i].line = Some(l)}
    IN (IF "L1" \in present THEN <<"L1">> ELSE <<>>)
       \o (IF "L2" \in present THEN <<"L2">> ELSE <<>>)

\* _compute_line_runtime(df)[line], with runtimes.get(line, 0): the seconds
\* between the first and the last parsed timestamp of the line
Runtime(df, line) ==
    IF IsEmpty(df) \/ line = None
       \/ ~(\E i \in 1..Len(df.cols) : df.cols[i] = "line")
       \/ ~(\E i \in 1..Len(df.cols) : df.cols[i] = "ts_dt")
    THEN 0
    ELSE LET ts == {df.rows[i].ts_dt[1] :
                      i \in {j \in 1..Len(df.rows) :
                                df.rows[j].line = line /\ df.rows[j].ts_dt # None}}
         IN IF ts = {} THEN 0
            ELSE LET tmax == CHOOSE t \in ts : \A u \in ts : u <= t
                     tmin == CHOOSE t \in ts : \A u \in ts : t <= u
                 IN (tmax - tmin) * 60

\* snap: the rows with the runtime column added
RECURSIVE WithRuntime(_, _)
WithRuntime(rows, df) ==
    IF rows = <<>> THEN <<>>
    ELSE <<[row |-> Head(rows),
            runtime |-> _format_duration(Runtime(df, Head(rows).line))]>>
         \o WithRuntime(Tail(rows), df)

\* a column of pd.DataFrame(recs) whose every value is None keeps Python's
\* None; a column with some number holds NaN where the value is missing
AllNone(df, col) == \A i \in 1..Len(df.rows) : df.rows[i][col] = None

\* float(sub[col].values[0]) raises on None, not on NaN
FloatRaises(df, row, col) == row[col] = None /\ AllNone(df, col)

Display(notice, rows) == [notice |-> notice, rows |-> rows]

(* ---------------------------- realtime page ---------------------------- *)

\* realtime_page() from `latest` on, for a table that is not empty
realtime_render(ld) ==
    LET df == ld.value
        latest == LastPerLine(SortByDt(df.rows))
        lines == SortedLines(latest)
    IN \* st.columns(0) raises
       IF Len(lines) = 0 THEN Result(TRUE, Display("none", <<>>), ld.net)
       ELSE IF \E i \in 1..Len(latest) :
                  \/ FloatRaises(df, latest[i], "temperature")
                  \/ FloatRaises(df, latest[i], "current")
            THEN Result(TRUE, Display("none", <<>>), ld.net)
       ELSE Result(FALSE, Display("table", WithRuntime(latest, df)), ld.net)

\* a page that kept the last table it rendered and showed it for want of data
realtime_page_keeps_last(dl) ==
    LET ld == load_realtime_db(dl)
    IN IF ld.raised THEN Result(TRUE, Display("none", <<>>), ld.net)
       ELSE IF IsEmpty(ld.value)
            THEN Result(FALSE,
                        IF lastGood # None THEN lastGood[1] ELSE Display("info", <<>>),
                        ld.net)
       ELSE realtime_render(ld)

\* realtime_page() after the download dl of its load_realtime_db()
realtime_page(dl) ==
    LET ld == load_realtime_db(dl)
    IN IF ld.raised THEN Result(TRUE, Display("none", <<>>), ld.net)
       ELSE IF IsEmpty(ld.value) THEN Result(FALSE, Display("info", <<>>), ld.net)
       ELSE realtime_render(ld)

\* files the pages are served
PageFiles == DbFiles(MaxPageRows)

InitRealtime == \E sec \in AllSecrets, f \in PageFiles : Idle(sec, NoFile, f)

\* a refresh of the live view
RealtimeRefresh ==
    \E kinds \in GetTraces(Len(gh_repos(secrets))) :
        LET dl == gh_download_file(secrets, RealtimePath, kinds, FilesServed(RealtimePath))
            res == realtime_page(dl)
        IN /\ Returned("realtime_page",
                       [bytes |-> dl.value, fetched |-> ~dl.raised],
                       res)
           /\ lastGood' = IF ~res.raised /\ res.value.notice = "table"
                           THEN Some(res.value) ELSE lastGood
           /\ UNCHANGED <<secrets, hist, served, cleared>>

\* the recorder, another program, appends a row to the realtime database
RecorderAppends ==
    \E r \in StoredRows :
        /\ served.kind = "sqlite"
        /\ Len(served.rows) < MaxPageRows
        /\ served' = [served EXCEPT !.rows = Append(@, r)]
        /\ UNCHANGED <<secrets, hist, cleared, call, inp, net, raised, ret, lastGood>>

NextRealtime == RealtimeRefresh \/ RecorderAppends

SpecRealtime == InitRealtime /\ [][NextRealtime]_vars

(* ---------------------------- history page ----------------------------- *)

\* what one GET of the archives directory can come to: requests.get raises,
\* a status that is not 200, a body r.json() rejects, JSON that is no list,
\* and the list of the directory's entries
ListKinds == {"neterr", "s404", "notjson", "notlist", "list"}

ListRaises(k) == k \in {"neterr", "notjson"}

\* the entries of historical_data/archives
DirEntries == <<"2024-01-03.csv", "README.md">>

\* f.get("name", "").endswith(".csv")
EndsWithCsv(name) == name = "2024-01-03.csv"

\* f["name"].replace(".csv", "")
StripCsv(name) == IF name = "2024-01-03.csv" THEN "2024-01-03" ELSE name

\* filename = str(sel); if not filename.endswith(".csv"): filename += ".csv"
ArchiveFile(sel) == IF sel = "2024-01-03" THEN "2024-01-03.csv" ELSE sel

RECURSIVE CsvEntries(_)
CsvEntries(entries) ==
    IF entries = <<>> THEN <<>>
    ELSE (IF EndsWithCsv(Head(entries)) THEN <<Head(entries)>> ELSE <<>>)
         \o CsvEntries(Tail(entries))

ArchivesPath == [dir |-> "historical_data", name |-> "archives"]

\* every repository is asked, and the answers are concatenated
RECURSIVE ListLoop(_, _, _, _, _)
ListLoop(repos, i, kinds, out, log) ==
    IF i > Len(repos) THEN Result(FALSE, out, log)
    ELSE LET k == kinds[i]
             log2 == Append(log, GetReq(repos[i], ArchivesPath, k))
         IN IF ListRaises(k) THEN Result(TRUE, out, log2)
            ELSE IF k = "list"
                 THEN ListLoop(repos, i + 1, kinds, out \o CsvEntries(DirEntries), log2)
                 ELSE ListLoop(repos, i + 1, kinds, out, log2)

\* list_archives(): the names of the .csv entries
list_archives(sec, kinds) == ListLoop(gh_repos(sec), 1, kinds, <<>>, <<>>)

\* the answers one list_archives() can meet when it asks n repositories
ListTraces(n) ==
    {s \in SeqsUpTo(ListKinds, n) :
        /\ n > 0 => Len(s) > 0
        /\ \A i \in 1..(Len(s) - 1) : ~ListRaises(s[i])
        /\ Len(s) < n => ListRaises(s[Len(s)])}

Range(q) == {q[i] : i \in 1..Len(q)}

HasCol(df, c) == c \in Range(df.cols)

\* df[df["work_order"] == sel_order]
RECURSIVE OfOrder(_, _)
OfOrder(rows, order) ==
    IF rows = <<>> THEN <<>>
    ELSE (IF Head(rows).work_order = order THEN <<Head(rows)>> ELSE <<>>)
         \o OfOrder(Tail(rows), order)

Page(view, manage, rows) == [view |-> view, manage |-> manage, rows |-> rows]

PageResult(r, v, n, w) == [raised |-> r, value |-> v, net |-> n, wrote |-> w]

\* dates_db of the run
DatesDb(df) ==
    IF IsEmpty(df) THEN {} ELSE {TsDate(df.rows[i].ts[1]) : i \in 1..Len(df.rows)}

DatesCsv(archives) == {StripCsv(archives[i]) : i \in 1..Len(archives)}

\* the records of the chosen date: from history.db when it has the date, from
\* the archive CSV otherwise
LoadChosen(sec, stored, other, sel, inDb, k2) ==
    IF inDb
    THEN load_history_db(gh_download_file(sec, HistoryPath, k2,
                                          FilesOf(stored, other, HistoryPath)),
                         Some(sel))
    ELSE load_archive_csv(gh_download_file(sec, ArchivePath(ArchiveFile(sel)), k2,
                                           FilesOf(stored, other,
                                                   ArchivePath(ArchiveFile(sel)))))

\* a maintenance tab that compared the confirmation text without regard to case
ManageTabAnyCase(sec, stored, e, view, rows, log) ==
    IF ~e.pressed THEN PageResult(FALSE, Page(view, "idle", rows), log, FALSE)
    ELSE IF e.confirm \notin {"DELETE", "delete"}
         THEN PageResult(FALSE, Page(view, "warning", rows), log, FALSE)
         ELSE LET up == clear_history_db(sec, stored, e.getKind, e.putKind)
              IN PageResult(up.raised,
                            Page(view, IF up.value THEN "success" ELSE "error", rows),
                            log \o up.net, up.value)

\* the maintenance tab, reached with the requests `log` already issued and the
\* view tab showing `view`
ManageTab(sec, stored, e, view, rows, log) ==
    IF ~e.pressed THEN PageResult(FALSE, Page(view, "idle", rows), log, FALSE)
    ELSE IF e.confirm # "DELETE"
         THEN PageResult(FALSE, Page(view, "warning", rows), log, FALSE)
         ELSE LET up == clear_history_db(sec, stored, e.getKind, e.putKind)
              IN IF up.raised
                 THEN PageResult(TRUE, Page(view, "none", rows), log \o up.net, FALSE)
                 ELSE PageResult(FALSE,
                                 Page(view, IF up.value THEN "success" ELSE "error", rows),
                                 log \o up.net, up.value)

\* the view tab from the chosen date's records on
ViewTab(sec, stored, e, ld, log) ==
    LET df == ld.value
        shown == IF e.order = None THEN df
                 ELSE Frame(df.cols, OfOrder(df.rows, e.order))
        snap == WithRuntime(LastPerLine(SortByDt(shown.rows)), shown)
        lines == SortedLines(shown.rows)
    IN \* df["work_order"] and groupby("line") raise on a missing column
       IF ~HasCol(df, "work_order") \/ ~HasCol(df, "line")
       THEN PageResult(TRUE, Page("none", "none", <<>>), log, FALSE)
       \* series.set_index("ts_dt")[col] raises on a missing column
       ELSE IF Len(lines) > 0 /\ (~HasCol(df, "temperature") \/ ~HasCol(df, "current"))
       THEN PageResult(TRUE, Page("none", "none", <<>>), log, FALSE)
       ELSE ManageTab(sec, stored, e, "table", snap, log)

\* history_page(): `return` in the view tab ends the run before the
\* maintenance tab
history_page(sec, stored, other, e) ==
    LET la == list_archives(sec, e.lk)
        h1 == load_history_db(gh_download_file(sec, HistoryPath, e.k1,
                                               FilesOf(stored, other, HistoryPath)),
                              None)
        dates_db == DatesDb(h1.value)
        names == DatesCsv(la.value) \cup dates_db
        ld == LoadChosen(sec, stored, other, e.sel, e.sel \in dates_db, e.k2)
        log1 == la.net \o h1.net
        log2 == log1 \o ld.net
    IN IF la.raised THEN PageResult(TRUE, Page("none", "none", <<>>), la.net, FALSE)
       ELSE IF h1.raised THEN PageResult(TRUE, Page("none", "none", <<>>), log1, FALSE)
       ELSE IF names = {} THEN PageResult(FALSE, Page("nodata", "none", <<>>), log1, FALSE)
       ELSE IF ld.raised THEN PageResult(TRUE, Page("none", "none", <<>>), log2, FALSE)
       ELSE IF IsEmpty(ld.value)
            THEN PageResult(FALSE, Page("norecords", "none", <<>>), log2, FALSE)
       ELSE ViewTab(sec, stored, e, ld, log2)

\* the answers the history page is run against: one that raises, one that
\* brings nothing and one that brings the file or the listing
PageTraces(n) == {s \in GetTraces(n) : Range(s) \subseteq {"neterr", "s404", "ok"}}

PageListTraces(n) == {s \in ListTraces(n) : Range(s) \subseteq {"neterr", "s404", "list"}}

ConfirmTexts == {"DELETE", "delete", ""}

\* the options of the work-order selectbox: sorted(df["work_order"].dropna().unique())
Orders(df) ==
    LET os == {df.rows[i].work_order : i \in 1..Len(df.rows)} \ {None}
    IN IF os = {} THEN {None} ELSE os

GoodCsv ==
    [kind |-> "csv", hasTs |-> TRUE, hasData |-> TRUE, rows |-> OneRowDb.rows]

\* one run of the page, on the files drawn at the start: the page keeps
\* nothing from one run to the next but the files in the remote store
InitHistory ==
    \/ \E sec \in AllSecrets, h \in {NoFile} \cup DbFiles(MaxPageRows) :
          Idle(sec, h, GoodCsv)
    \/ \E sec \in AllSecrets, h \in {NoFile, OneRowDb}, f \in TextFiles(MaxPageRows) :
          Idle(sec, h, f)

\* what the user and the remote store bring to one run of history_page:
\*   lk        the answers to list_archives()
\*   k1        the answers to the download of load_history_db()
\*   sel       the date chosen in the date selectbox
\*   k2        the answers to the download of the chosen date's records
\*   order     the work order chosen in the selectbox, <<>> when it has none
\*   confirm   the text in the confirmation input
\*   pressed   what st.button returns: the clear button was pressed
\*   getKind, putKind   the answers to the two requests of the upload
Env(lk, k1, sel, k2, order, confirm, pressed, getKind, putKind) ==
    [lk |-> lk, k1 |-> k1, sel |-> sel, k2 |-> k2, order |-> order,
     confirm |-> confirm, pressed |-> pressed, getKind |-> getKind, putKind |-> putKind]

\* the run with the inputs e
HistoryRun(e) ==
    LET res == history_page(secrets, hist, served, e)
    IN /\ e.pressed /\ e.confirm = "DELETE" =>
             ShaGetFits(hist, e.getKind) /\ PutFits(hist, res.net)
       /\ Returned("history_page", [env |-> e, stored |-> hist], res)
       /\ hist' = IF res.wrote THEN EmptyDb ELSE hist
       /\ cleared' = res.wrote
       /\ UNCHANGED <<secrets, served, lastGood>>

\* a run of the history view: an input is drawn only where the run reads it
HistoryRefresh ==
    /\ call = "none"
    /\ \E lk \in PageListTraces(Len(gh_repos(secrets))) :
         LET la == list_archives(secrets, lk)
         IN \E k1 \in IF la.raised THEN {<<>>} ELSE PageTraces(Len(gh_repos(secrets))) :
              LET h1 == load_history_db(
                            gh_download_file(secrets, HistoryPath, k1,
                                             FilesServed(HistoryPath)), None)
                  names == DatesCsv(la.value) \cup DatesDb(h1.value)
                  chooses == ~la.raised /\ ~h1.raised /\ names # {}
              IN /\ \A i \in 1..Len(k1) : GetFits(FilesServed(HistoryPath)[i], k1[i])
                 /\ \E sel \in IF chooses THEN names ELSE {""},
                       k2 \in IF chooses THEN PageTraces(Len(gh_repos(secrets)))
                              ELSE {<<>>} :
                      LET ld == LoadChosen(secrets, hist, served, sel,
                                           sel \in DatesDb(h1.value), k2)
                          filters == chooses /\ ~ld.raised /\ ~IsEmpty(ld.value)
                                     /\ HasCol(ld.value, "work_order")
                      IN \E order \in IF filters THEN Orders(ld.value) ELSE {None} :
                           LET e0 == Env(lk, k1, sel, k2, order, "", FALSE, "none", "none")
                               r0 == history_page(secrets, hist, served, e0)
                               manages == ~r0.raised /\ r0.value.manage = "idle"
                           IN \E pressed \in IF manages THEN BOOLEAN ELSE {FALSE} :
                              \E confirm \in IF pressed THEN ConfirmTexts ELSE {""} :
                              \E getKind \in IF pressed /\ confirm = "DELETE"
                                              THEN ShaGetKinds ELSE {"none"} :
                              \E putKind \in IF pressed /\ confirm = "DELETE"
                                                 /\ ~GetRaises(getKind)
                                              THEN PutKinds ELSE {"none"} :
                                  HistoryRun(Env(lk, k1, sel, k2, order, confirm,
                                                 pressed, getKind, putKind))

NextHistory == HistoryRefresh

SpecHistory == InitHistory /\ [][NextHistory]_vars

(* ------------------------------ properties ----------------------------- *)

Gets(log) == {i \in 1..Len(log) : log[i].method = "GET"}

\* the fetch of a refresh brought no data: nothing, zero bytes, bytes that
\* are no records database, or a records table without rows
NoData(bytes) ==
    Falsy(bytes) \/ bytes[1].kind # "sqlite" \/ bytes[1].rows = <<>>

Puts(log) == {i \in 1..Len(log) : log[i].method = "PUT"}

Loaders == {"load_sqlite_from_bytes", "load_history_db", "load_realtime_db",
            "load_archive_csv"}

\* the canonical fields of a record: identifier, work order, shift, line,
\* timestamp string, parsed timestamp, temperature, current
CanonicalFields == {"id", "work_order", "shift", "line", "ts", "ts_dt",
                    "temperature", "current"}

HasCanonicalFields(df) ==
    Range(df.cols) = CanonicalFields /\ Len(df.cols) = Cardinality(CanonicalFields)

\* C1: in a run of history_page that evaluates the clear button, a PUT is
\* issued only when the button is pressed and the confirmation text is exactly
\* "DELETE"; a press with any other text shows the warning, issues no PUT and
\* leaves the stored history file as it was.
C1_ClearOnlyOnExactDelete ==
    call = "history_page" =>
        /\ Puts(net) # {} => inp.env.pressed /\ inp.env.confirm = "DELETE"
        /\ inp.env.pressed /\ inp.env.confirm # "DELETE" =>
               /\ ~raised
               /\ ret.manage = "warning"
               /\ Puts(net) = {}
               /\ hist = inp.stored
        /\ hist # inp.stored => inp.env.pressed /\ inp.env.confirm = "DELETE"

C1_LowercaseRejected ==
    /\ call = "history_page"
    /\ inp.env.pressed
    /\ inp.env.confirm = "delete"
    /\ inp.stored = OneRowDb
    /\ ret.manage = "warning"
    /\ hist = OneRowDb

\* C2: gh_download_file never raises to its caller: it returns the bytes or None.
C2_DownloadNeverRaises == call = "gh_download_file" => ~raised

\* C3 as claimed: one call of gh_download_file issues at most one GET.
C3_AtMostOneGet == call = "gh_download_file" => Cardinality(Gets(net)) <= 1

\* C3 as amended: one call of gh_download_file issues at most one GET to each
\* repository of gh_repos(), in that order and to no repository twice, and a
\* further GET only after every earlier one brought no content.
C3_OneGetPerRepo ==
    call = "gh_download_file" =>
        /\ Len(net) <= Len(gh_repos(secrets))
        /\ \A i \in 1..Len(net) :
               /\ net[i].method = "GET"
               /\ net[i].path = inp.path
               /\ \A j \in 1..Len(net) : net[i].repo = net[j].repo => i = j
               /\ i < Len(net) => GetContinues(net[i].kind)
        /\ \A i \in 1..Len(net) : \A j \in 1..Len(net) :
               i < j => \E a, b \in 1..Len(gh_repos(secrets)) :
                           /\ a < b
                           /\ gh_repos(secrets)[a] = net[i].repo
                           /\ gh_repos(secrets)[b] = net[j].repo

C3_SecondRepoAsked ==
    /\ call = "gh_download_file"
    /\ Len(net) = 2
    /\ net[1].kind = "s404"
    /\ net[2].kind = "ok"
    /\ net[1].repo = "EMS"
    /\ net[2].repo = "recording"
    /\ ret # None

\* C4: every loader returns an empty table and does not raise when the fetched
\* bytes are absent or empty, or cannot be opened or parsed as the presumed
\* format.
C4_LoadersNeverRaise ==
    (/\ call \in Loaders
     /\ inp.fetched
     /\ \/ Falsy(inp.bytes)
        \/ call # "load_archive_csv" /\ inp.bytes[1].kind # "sqlite"
        \/ call = "load_archive_csv"
             /\ (inp.bytes[1].kind # "csv" \/ ~inp.bytes[1].hasTs))
    => ~raised /\ ret.rows = <<>>

\* C5: every table a loader returns has exactly the canonical fields, also
\* when it has no rows or the load failed.
C5_CanonicalFieldsAlways ==
    call \in Loaders /\ ~raised => HasCanonicalFields(ret)

\* C6: after clear_history_db succeeded and no other writer changed the
\* store, a load_history_db that reads the store back yields zero rows and
\* the full canonical column set.
C6_ResetRoundTrip ==
    (/\ call = "load_history_db"
     /\ cleared
     /\ ~raised
     /\ Len(net) = 1
     /\ net[1].kind = "ok")
    => ret.rows = <<>> /\ HasCanonicalFields(ret)

\* C7: for stored rows whose timestamps all parse, the table a loader returns
\* is non-decreasing by ts_dt.
C7_SortedByParsedTimestamp ==
    (/\ call \in Loaders
     /\ ~raised
     /\ \A i \in 1..Len(ret.rows) : ret.rows[i].ts_dt # None)
    => \A i \in 1..Len(ret.rows) : \A j \in 1..Len(ret.rows) :
           i < j => ret.rows[i].ts_dt[1] <= ret.rows[j].ts_dt[1]

\* C8 as claimed: once a refresh has rendered a non-empty table, a later
\* refresh whose fetch yields no data displays that last table.
C8_LastKnownGoodShown ==
    (/\ call = "realtime_page"
     /\ inp.fetched
     /\ NoData(inp.bytes)
     /\ lastGood # None)
    => ~raised /\ ret = lastGood[1]

\* C8 as amended: a refresh whose fetch returns no data (nothing, or no
\* rows) displays the no-data notice and no table, whatever an earlier
\* refresh displayed.
C8_NoDataShowsNotice ==
    (/\ call = "realtime_page"
     /\ inp.fetched
     /\ NoData(inp.bytes))
    => ~raised /\ ret = Display("info", <<>>)

C8_NoticeAfterGoodRefresh ==
    /\ call = "realtime_page"
    /\ inp.fetched
    /\ Falsy(inp.bytes)
    /\ lastGood # None
    /\ lastGood[1].notice = "table"
    /\ ret.notice = "info"

\* C9: no refresh ends with an unhandled error, whatever table the loader
\* returned.
C9_RefreshNeverRaises ==
    call = "realtime_page" /\ inp.fetched => ~raised

\* C10: gh_upload_file sends the stored file's sha whenever a file is stored
\* at the path, omits it only when none is, and returns true exactly when the
\* PUT answers 200 or 201.
C10_ShaWheneverOverwriting ==
    call = "gh_upload_file" =>
        \A i \in Puts(net) :
            /\ inp.stored # NoFile => net[i].sha = Some(Sha(inp.stored))
            /\ net[i].sha = None => inp.stored = NoFile
            /\ ~raised => (ret = Some(TRUE) <=> net[i].kind \in {"s200", "s201"})

====
